---- MODULE Spec2Model ----
(***************************************************************************)
(* A model of iroh-mesh: the cluster registry (DiscoveryManager), the      *)
(* agent's periodic tasks (MeshAgent) and the proxy's connection handling  *)
(* (MeshProxy).                                                            *)
(*                                                                         *)
(* Spec            : tasks calling the DiscoveryManager's operations       *)
(*                   concurrently (discovery.rs).                          *)
(* SpecAgent       : the agent process: MeshAgent::run and its periodic    *)
(*                   tasks (agent.rs), with discover_local_services as it  *)
(*                   is written.                                           *)
(* SpecAgentLister : the same agent with the ServiceLister of the design,  *)
(*                   whose listing varies and can fail.                    *)
(* SpecProxy       : the proxy process: run and main, the accept loop and  *)
(*                   handle_tcp_connection, the protocol task and          *)
(*                   MeshProtocolHandler::accept (proxy.rs, bin/proxy.rs). *)
(* SpecProxySeeded : the same proxy started on a registry that a test of   *)
(*                   the crate has filled with clusters.                   *)
(* SpecProxyFair   : the proxy with the steps it takes by itself taken     *)
(*                   fairly, for what has to happen in the end.            *)
(* SpecStatus      : get_status and the registry's reads on registries of  *)
(*                   up to three clusters (agent.rs, discovery.rs).        *)
(***************************************************************************)
EXTENDS Integers, Sequences, FiniteSets, TLC

(***************************************************************************)
(* Values.  Option<T> is a sequence: None is << >>, Some(x) is << x >>.    *)
(***************************************************************************)
None == << >>
Some(x) == << x >>
IsSome(o) == Len(o) = 1
Unwrap(o) == o[1]

\* Bounds of the model.
MaxCalls == 3
MaxTicks == 3

\* The tasks that call the registry's operations in Spec: two writers and a
\* reader, each issuing one call after the other.
Writers == {"w1", "w2"}
Readers == {"r1"}
Callers == Writers \cup Readers

\* The long-lived tasks of MeshAgent::run: service discovery, the API server
\* and cluster registration.
AgentTasks == {"disc", "api", "reg"}
Tasks == Callers \cup AgentTasks
NoTask == "none"

ClusterIds == {"c1", "c2"}
Names == {"a", "b"}
Namespaces == {"x", "y"}

\* A ServiceInfo (lib.rs): name, namespace, port, protocol.
ServiceInfo(name, namespace, port, protocol) ==
    [name |-> name, namespace |-> namespace, port |-> port, protocol |-> protocol]

ListAX == << ServiceInfo("a", "x", 80, "TCP") >>
ListAYBX == << ServiceInfo("a", "y", 80, "TCP"), ServiceInfo("b", "x", 81, "TCP") >>

\* The service lists the callers of Spec register: one advertises (a, x); the
\* other advertises (a, y) and (b, x), so that (b, y) and (a, x) match it on
\* the name alone and on the namespace alone.
ServiceLists == { ListAX, ListAYBX }

\* A ClusterInfo (lib.rs).
ClusterInfo(id, node_id, relay_url, direct_addresses, services) ==
    [id |-> id, node_id |-> node_id, relay_url |-> relay_url,
     direct_addresses |-> direct_addresses, services |-> services]

\* The ClusterInfo values the callers of Spec pass: two per identity, which
\* differ in the node and in the services.
ClusterInfos ==
    { ClusterInfo(id, "n1", None, << >>, ListAX) : id \in ClusterIds }
    \cup { ClusterInfo(id, "n2", None, << >>, ListAYBX) : id \in ClusterIds }

\* The local TCP connections the proxy's listener is offered.
Conns == {"k1", "k2"}

\* The futures MeshProxy::run selects over.
ProxyTasks == {"proxy", "protocol"}

\* The inbound mesh connections the router is offered.
Peers == {"p1"}

\* The failures of listener.accept() that are followed.
MaxAcceptErrs == 1

\* config.cluster_id and endpoint.node_id() of the agent.
LocalClusterId == "c1"
LocalNodeId == "n1"

\* Result<Vec<ServiceInfo>>
Ok(services) == [ok |-> TRUE, services |-> services]
Err(kind) == [ok |-> FALSE, error |-> kind]

VARIABLES
    clusters,   \* DiscoveryManager.clusters: the HashMap's entries [key, value],
                \* in the order clusters.values() iterates them
    lock,       \* the RwLock around it: [writer, readers]
    pc,         \* each task's position
    op,         \* each task's current (or last) call: [kind, ...arguments]
    ret,        \* what each task's last completed call returned
    ncalls,     \* number of mutating calls issued so far (bounded by MaxCalls)
    passed,     \* history: the ClusterInfo values passed to register/update
    lastWrite,  \* history: per identity, the value of the last completed
                \* register/update (None after a remove, or before any)
    recency,    \* history: the identities in the order of their last
                \* completed register/update, most recent last
    kube_client,\* DiscoveryManager.kube_client: Some(client) or None
    lister,     \* which service lister the agent's ticks call: "code" is
                \* discover_local_services, "design" the ServiceLister
    listed,     \* per periodic task, the result of its last listing
    ticks,      \* per agent task, the ticks taken (bounded by MaxTicks)
    fails,      \* history: per task, the failed listings in a row so far
    recovered,  \* history: the failed listings in a row that came before
                \* the registration task's last successful one
    cstate,     \* per local TCP connection, where its handling is
    creq,       \* per connection, what the handler's stream.read returned
    chost,      \* per connection, the host extract_host_header gave
    cresult,    \* per connection, what handle_tcp_connection returned
    crecv,      \* per connection, the bytes the client has received
    csock,      \* per connection, the TcpStream: "open" or "closed"
    dials,      \* the tunnels dialed on the endpoint: [conn, node_id, alpn]
    ptask,      \* where the two futures of MeshProxy::run are
    runret,     \* what MeshProxy::run returned
    exit,       \* the exit status of the proxy process
    signal,     \* Ctrl-C has been delivered to the process
    acceptErrs, \* the failures of listener.accept() so far
    hstate,     \* per inbound mesh connection, where its handler is
    hres,       \* per inbound connection, what the handler returned
    hstream,    \* per inbound connection, its bidirectional stream
    hconn,      \* per inbound connection, the Connection
    hid         \* per inbound connection, what remote_node_id() gave

agentVars == << kube_client, lister, listed, ticks, fails, recovered >>

connVars == << cstate, creq, chost, cresult, crecv, csock, dials >>

procVars == << ptask, runret, exit, signal, acceptErrs >>

peerVars == << hstate, hres, hstream, hconn, hid >>

proxyVars == << connVars, procVars, peerVars >>

vars == << clusters, lock, pc, op, ret, ncalls, passed, lastWrite, recency,
           agentVars, proxyVars >>

registryVars == << clusters, lock, ncalls, passed, lastWrite, recency >>

(***************************************************************************)
(* The HashMap<ClusterId, ClusterInfo>.                                    *)
(***************************************************************************)
Keys(cl) == { cl[i].key : i \in 1..Len(cl) }

\* Position of a key among the entries, 0 when absent.
IndexOf(cl, id) ==
    IF id \in Keys(cl) THEN CHOOSE i \in 1..Len(cl) : cl[i].key = id ELSE 0

InsertAt(cl, p, e) == SubSeq(cl, 1, p - 1) \o << e >> \o SubSeq(cl, p, Len(cl))

RemoveAt(cl, p) == SubSeq(cl, 1, p - 1) \o SubSeq(cl, p + 1, Len(cl))

\* An insert that always takes a free bucket, also for a key already present
\* (a Vec of entries pushed to).
MapInsertAppend(cl, key, value, p) ==
    InsertAt(cl, p, [key |-> key, value |-> value])

\* HashMap::insert(key, value).  An entry of a key already present is
\* overwritten where it is; a new key takes a free bucket, which may come
\* anywhere in the iteration order (p), the other entries staying in place.
MapInsert(cl, key, value, p) ==
    IF key \in Keys(cl)
    THEN [cl EXCEPT ![IndexOf(cl, key)] = [key |-> key, value |-> value]]
    ELSE InsertAt(cl, p, [key |-> key, value |-> value])

\* The memory of the map while insert is moving the new value over the old
\* one: some fields are the new value's already, the services are still the
\* old value's.  A new key's bucket is not part of the map yet.
MapInsertPartial(cl, key, value) ==
    IF key \in Keys(cl)
    THEN [cl EXCEPT ![IndexOf(cl, key)].value =
             [@ EXCEPT !.node_id = value.node_id,
                       !.relay_url = value.relay_url,
                       !.direct_addresses = value.direct_addresses]]
    ELSE cl

\* HashMap::remove(key): the other entries stay where they are.
MapRemove(cl, key) ==
    IF key \in Keys(cl) THEN RemoveAt(cl, IndexOf(cl, key)) ELSE cl

\* HashMap::get(key).cloned()
MapGet(cl, key) ==
    IF key \in Keys(cl) THEN Some(cl[IndexOf(cl, key)].value) ELSE None

\* HashMap::values().cloned().collect()
MapValues(cl) == [i \in 1..Len(cl) |-> cl[i].value]

(***************************************************************************)
(* The RwLock.                                                             *)
(***************************************************************************)
Unlocked == [writer |-> NoTask, readers |-> {}]

\* clusters.write().await completes: no task holds the lock.
CanWrite(l) == l.writer = NoTask /\ l.readers = {}

\* A lock that lets a reader in while a writer holds it.
CanReadDuringWrite(l) == TRUE

\* clusters.read().await completes: no writer holds the lock.
CanRead(l) == l.writer = NoTask

(***************************************************************************)
(* DiscoveryManager's operations on the map (discovery.rs).                *)
(***************************************************************************)
\* A register_cluster that keeps the entry of an identity already present
\* (entry(id).or_insert(cluster_info)).
RegisterClusterKeepExisting(cl, info, p) ==
    IF info.id \in Keys(cl) THEN cl ELSE MapInsert(cl, info.id, info, p)

\* A register_cluster that adds the new services to those of the entry
\* already present.
RegisterClusterAppendsServices(cl, info, p) ==
    IF info.id \in Keys(cl)
    THEN MapInsert(cl, info.id,
                   [info EXCEPT !.services =
                        cl[IndexOf(cl, info.id)].value.services \o @], p)
    ELSE MapInsert(cl, info.id, info, p)

\* register_cluster: clusters.insert(cluster_info.id.clone(), cluster_info)
RegisterCluster(cl, info, p) == MapInsert(cl, info.id, info, p)

\* update_cluster: clusters.insert(cluster_info.id.clone(), cluster_info)
UpdateCluster(cl, info, p) == MapInsert(cl, info.id, info, p)

\* A remove_cluster that empties the registry (clusters.clear()).
RemoveClusterClearsAll(cl, id) == << >>

\* remove_cluster: clusters.remove(cluster_id)
RemoveCluster(cl, id) == MapRemove(cl, id)

\* get_cluster_info: clusters.get(cluster_id).cloned()
GetClusterInfo(cl, id) == MapGet(cl, id)

\* list_clusters: clusters.values().cloned().collect()
ListClusters(cl) == MapValues(cl)

\* An inner loop that compares the name only.
ServiceMatchNameOnly(services, j, name, namespace) ==
    \E k \in j..Len(services) : services[k].name = name

\* The inner loop of find_service: does a service of the list have this name
\* and this namespace?  Scans from index j.
RECURSIVE ServiceMatchFrom(_, _, _, _)
ServiceMatchFrom(services, j, name, namespace) ==
    IF j > Len(services) THEN FALSE
    ELSE IF services[j].name = name /\ services[j].namespace = namespace
         THEN TRUE
         ELSE ServiceMatchFrom(services, j + 1, name, namespace)

\* The outer loop of find_service over clusters.values(), from index i: the
\* first cluster with a matching service, cloned.
RECURSIVE FindServiceFrom(_, _, _, _)
FindServiceFrom(cl, i, name, namespace) ==
    IF i > Len(cl) THEN None
    ELSE IF ServiceMatchFrom(cl[i].value.services, 1, name, namespace)
         THEN Some(cl[i].value)
         ELSE FindServiceFrom(cl, i + 1, name, namespace)

FindService(cl, name, namespace) == FindServiceFrom(cl, 1, name, namespace)

(***************************************************************************)
(* The calls a task can issue.                                             *)
(***************************************************************************)
WriteKinds == {"register_cluster", "update_cluster", "remove_cluster"}
ReadKinds == {"get_cluster_info", "list_clusters", "find_service"}

NoOp == [kind |-> "none"]

WriteOps ==
    { [kind |-> k, info |-> i] :
        k \in {"register_cluster", "update_cluster"}, i \in ClusterInfos }
    \cup { [kind |-> "remove_cluster", id |-> id] : id \in ClusterIds }

ReadOps ==
    { [kind |-> "get_cluster_info", id |-> id] : id \in ClusterIds }
    \cup { [kind |-> "list_clusters"] }
    \cup { [kind |-> "find_service", name |-> n, namespace |-> ns] :
             n \in Names, ns \in Namespaces }

\* The identity a mutating call is about.
TargetId(o) == IF o.kind = "remove_cluster" THEN o.id ELSE o.info.id

\* The map once the mutating call o has completed.
Applied(cl, o, p) ==
    CASE o.kind = "register_cluster" -> RegisterCluster(cl, o.info, p)
      [] o.kind = "update_cluster" -> UpdateCluster(cl, o.info, p)
      [] o.kind = "remove_cluster" -> RemoveCluster(cl, o.id)

\* The map while the mutating call o is being applied.
Applying(cl, o) ==
    IF o.kind = "remove_cluster" THEN cl
    ELSE MapInsertPartial(cl, o.info.id, o.info)

\* What the read call o returns on the map cl.
ReadResult(cl, o) ==
    CASE o.kind = "get_cluster_info" -> GetClusterInfo(cl, o.id)
      [] o.kind = "list_clusters" -> ListClusters(cl)
      [] o.kind = "find_service" -> FindService(cl, o.name, o.namespace)

\* A lookup that takes the entry out of the map (HashMap::remove in the
\* place of get).
ReadEffectTakes(cl, o) ==
    IF o.kind = "get_cluster_info" THEN MapRemove(cl, o.id) ELSE << >>

\* The map after a read: get, values and the loops of find_service go
\* through the read guard, a shared reference, and clone what they return.
ReadEffect(cl, o) == cl

\* Drop id from the recency order.
Without(seq, id) == SelectSeq(seq, LAMBDA x : x # id)

(***************************************************************************)
(* Actions of a task calling the registry.                                 *)
(***************************************************************************)
\* A writer calls register_cluster, update_cluster or remove_cluster and
\* waits for clusters.write().
CallWrite(t, o) ==
    /\ pc[t] = "idle"
    /\ ncalls < MaxCalls
    /\ pc' = [pc EXCEPT ![t] = "write_wait"]
    /\ op' = [op EXCEPT ![t] = o]
    /\ ret' = [ret EXCEPT ![t] = None]
    /\ ncalls' = ncalls + 1
    /\ passed' = IF o.kind = "remove_cluster" THEN passed
                 ELSE passed \cup {o.info}
    /\ UNCHANGED << clusters, lock, lastWrite, recency, agentVars, proxyVars >>

\* clusters.write().await returns the guard; the insert or remove starts.
WriteBegin(t) ==
    /\ pc[t] = "write_wait"
    /\ CanWrite(lock)
    /\ lock' = [lock EXCEPT !.writer = t]
    /\ clusters' = Applying(clusters, op[t])
    /\ pc' = [pc EXCEPT ![t] = "writing"]
    /\ UNCHANGED << op, ret, ncalls, passed, lastWrite, recency, agentVars, proxyVars >>

\* The insert or remove completes, the guard is dropped and the call returns
\* Ok(()).
WriteEnd(t) ==
    /\ pc[t] = "writing"
    /\ \E p \in 1..(Len(clusters) + 1) :
         clusters' = Applied(clusters, op[t], p)
    /\ lock' = [lock EXCEPT !.writer = NoTask]
    /\ pc' = [pc EXCEPT ![t] = "idle"]
    /\ ret' = [ret EXCEPT ![t] = Some("Ok")]
    /\ lastWrite' = [lastWrite EXCEPT ![TargetId(op[t])] =
                        IF op[t].kind = "remove_cluster" THEN None
                        ELSE Some(op[t].info)]
    /\ recency' = IF op[t].kind = "remove_cluster"
                  THEN Without(recency, op[t].id)
                  ELSE Append(Without(recency, op[t].info.id), op[t].info.id)
    /\ UNCHANGED << op, ncalls, passed, agentVars, proxyVars >>

\* A reader calls get_cluster_info, list_clusters or find_service and waits
\* for clusters.read().
CallRead(t, o) ==
    /\ pc[t] = "idle"
    /\ pc' = [pc EXCEPT ![t] = "read_wait"]
    /\ op' = [op EXCEPT ![t] = o]
    /\ ret' = [ret EXCEPT ![t] = None]
    /\ UNCHANGED << registryVars, agentVars, proxyVars >>

\* clusters.read().await returns the guard.
ReadBegin(t) ==
    /\ pc[t] = "read_wait"
    /\ CanRead(lock)
    /\ lock' = [lock EXCEPT !.readers = @ \cup {t}]
    /\ pc' = [pc EXCEPT ![t] = "reading"]
    /\ UNCHANGED << clusters, op, ret, ncalls, passed, lastWrite, recency,
                    agentVars, proxyVars >>

\* The read clones its result, the guard is dropped and the call returns.
ReadEnd(t) ==
    /\ pc[t] = "reading"
    /\ ret' = [ret EXCEPT ![t] = Some(ReadResult(clusters, op[t]))]
    /\ clusters' = ReadEffect(clusters, op[t])
    /\ lock' = [lock EXCEPT !.readers = @ \ {t}]
    /\ pc' = [pc EXCEPT ![t] = "idle"]
    /\ UNCHANGED << op, ncalls, passed, lastWrite, recency, agentVars, proxyVars >>

(***************************************************************************)
(* Spec: DiscoveryManager::new, then concurrent callers.                   *)
(***************************************************************************)
\* A constructor that seeds the registry with the local cluster's own entry.
InitRegistryWithSelf ==
    /\ clusters = << [key |-> LocalClusterId,
                      value |-> ClusterInfo(LocalClusterId, LocalNodeId, None, << >>, ListAX)] >>
    /\ lock = Unlocked
    /\ pc = [t \in Tasks |-> "idle"]
    /\ op = [t \in Tasks |-> NoOp]
    /\ ret = [t \in Tasks |-> None]
    /\ ncalls = 0
    /\ passed = {}
    /\ lastWrite = [id \in ClusterIds |-> None]
    /\ recency = << >>

InitRegistry ==
    /\ clusters = << >>
    /\ lock = Unlocked
    /\ pc = [t \in Tasks |-> "idle"]
    /\ op = [t \in Tasks |-> NoOp]
    /\ ret = [t \in Tasks |-> None]
    /\ ncalls = 0
    /\ passed = {}
    /\ lastWrite = [id \in ClusterIds |-> None]
    /\ recency = << >>

\* The agent's tasks before their first tick.
InitTasks ==
    /\ listed = [t \in AgentTasks |-> None]
    /\ ticks = [t \in AgentTasks |-> 0]
    /\ fails = [t \in AgentTasks |-> 0]
    /\ recovered = 0

\* The connections before the listener has accepted them.
InitConns ==
    /\ cstate = [c \in Conns |-> "pending"]
    /\ creq = [c \in Conns |-> None]
    /\ chost = [c \in Conns |-> None]
    /\ cresult = [c \in Conns |-> None]
    /\ crecv = [c \in Conns |-> ""]
    /\ csock = [c \in Conns |-> "open"]
    /\ dials = {}

\* MeshProxy::run before select! has polled its two futures.
InitProcess ==
    /\ ptask = [t \in ProxyTasks |-> "start"]
    /\ runret = None
    /\ exit = None
    /\ signal = FALSE
    /\ acceptErrs = 0

\* No mesh connection has come in.
InitPeers ==
    /\ hstate = [p \in Peers |-> "none"]
    /\ hres = [p \in Peers |-> None]
    /\ hstream = [p \in Peers |-> "none"]
    /\ hconn = [p \in Peers |-> "none"]
    /\ hid = [p \in Peers |-> None]

Init ==
    /\ InitRegistry
    /\ kube_client = None
    /\ lister = "code"
    /\ InitTasks
    /\ InitConns
    /\ InitProcess
    /\ InitPeers

Next ==
    \/ \E t \in Writers, o \in WriteOps : CallWrite(t, o)
    \/ \E t \in Writers : WriteBegin(t)
    \/ \E t \in Writers : WriteEnd(t)
    \/ \E t \in Readers, o \in ReadOps : CallRead(t, o)
    \/ \E t \in Readers : ReadBegin(t)
    \/ \E t \in Readers : ReadEnd(t)

Spec == Init /\ [][Next]_vars

(***************************************************************************)
(* The agent (agent.rs).                                                   *)
(***************************************************************************)
\* discover_local_services: the one-element list of the mode the manager
\* runs in, whatever the namespace asked for.  It has no failing path.
DiscoverLocalServices(k) ==
    IF IsSome(k)
    THEN Ok(<< ServiceInfo("kubernetes", "default", 443, "TCP") >>)
    ELSE Ok(<< ServiceInfo("standalone-service", "default", 8080, "TCP") >>)

\* The ServiceLister of the design: a complete list for the scope, or the
\* error that discovery is unavailable.
ServiceListerResults ==
    { Ok(l) : l \in {<< >>} \cup ServiceLists } \cup { Err("Discovery") }

\* The results the listing of a tick can have.
ListingResults ==
    IF lister = "code" THEN { DiscoverLocalServices(kube_client) }
    ELSE ServiceListerResults

\* A ClusterInfo built under the identity of a peer.
RegistrationInfoPeerId(services) ==
    ClusterInfo("c2", LocalNodeId, None, << >>, services)

\* A ClusterInfo built with an empty service list.
RegistrationInfoNoServices(services) ==
    ClusterInfo(LocalClusterId, LocalNodeId, None, << >>, << >>)

\* start_cluster_registration: the ClusterInfo a tick builds.
RegistrationInfo(services) ==
    ClusterInfo(LocalClusterId, LocalNodeId, None, << >>, services)

\* A match that registers the default (empty) list when the listing failed.
RegistrationCallDefaultOnErr(r) ==
    Some([kind |-> "register_cluster",
          info |-> RegistrationInfo(IF r.ok THEN r.services ELSE << >>)])

\* start_cluster_registration: the match on the listing.  Ok(services) goes
\* on to register_cluster(cluster_info); Err(e) is logged and the loop
\* continues, with no call.
RegistrationCall(r) ==
    IF r.ok
    THEN Some([kind |-> "register_cluster", info |-> RegistrationInfo(r.services)])
    ELSE None

\* An Err arm that returns the error from the task.
RegistrationEndsOnErr == "ended"

\* start_cluster_registration, Err arm: `continue`, the task waits for the
\* next tick.
RegistrationAfterErr == "idle"

\* start_service_discovery, Err arm: warn!, and the loop goes on.
DiscoveryAfterErr == "idle"

\* MeshAgent::run: select! returns as soon as one of the three tasks ends.
AgentRunReturned == \E t \in AgentTasks : pc[t] = "ended"

\* start_cluster_registration: interval.tick() fires, the services are
\* listed and, on success, register_cluster is called and waits for
\* clusters.write().
RegTick ==
    /\ ~ AgentRunReturned
    /\ pc["reg"] = "idle"
    /\ ticks["reg"] < MaxTicks
    /\ \E r \in ListingResults :
         LET call == RegistrationCall(r) IN
         /\ listed' = [listed EXCEPT !["reg"] = Some(r)]
         /\ fails' = [fails EXCEPT !["reg"] = IF r.ok THEN 0 ELSE @ + 1]
         /\ recovered' = IF r.ok THEN fails["reg"] ELSE recovered
         /\ IF IsSome(call)
            THEN /\ pc' = [pc EXCEPT !["reg"] = "write_wait"]
                 /\ op' = [op EXCEPT !["reg"] = Unwrap(call)]
                 /\ ret' = [ret EXCEPT !["reg"] = None]
                 /\ passed' = passed \cup {Unwrap(call).info}
            ELSE /\ pc' = [pc EXCEPT !["reg"] = RegistrationAfterErr]
                 /\ UNCHANGED << op, ret, passed >>
    /\ ticks' = [ticks EXCEPT !["reg"] = @ + 1]
    /\ UNCHANGED << clusters, lock, ncalls, lastWrite, recency,
                    kube_client, lister, proxyVars >>

\* start_service_discovery: interval.tick() fires and the services are
\* listed; the list is logged and dropped.
DiscTick ==
    /\ ~ AgentRunReturned
    /\ pc["disc"] = "idle"
    /\ ticks["disc"] < MaxTicks
    /\ \E r \in ListingResults :
         /\ listed' = [listed EXCEPT !["disc"] = Some(r)]
         /\ fails' = [fails EXCEPT !["disc"] = IF r.ok THEN 0 ELSE @ + 1]
         /\ pc' = [pc EXCEPT !["disc"] = IF r.ok THEN "idle" ELSE DiscoveryAfterErr]
    /\ ticks' = [ticks EXCEPT !["disc"] = @ + 1]
    /\ UNCHANGED << registryVars, op, ret, kube_client, lister, recovered,
                    proxyVars >>

\* start_api_server: the 60 s sleep of its loop ends.
ApiTick ==
    /\ ~ AgentRunReturned
    /\ pc["api"] = "idle"
    /\ ticks["api"] < MaxTicks
    /\ ticks' = [ticks EXCEPT !["api"] = @ + 1]
    /\ UNCHANGED << registryVars, pc, op, ret, kube_client, lister, listed,
                    fails, recovered, proxyVars >>

\* register_cluster called by the registration task: the write guard, the
\* insert and the return to the loop.
RegWriteBegin == ~ AgentRunReturned /\ WriteBegin("reg")

RegWriteEnd == ~ AgentRunReturned /\ WriteEnd("reg")

\* MeshAgent::new: the DiscoveryManager has a Kubernetes client or runs
\* standalone.
InitAgent ==
    /\ InitRegistry
    /\ kube_client \in { None, Some("client") }
    /\ lister = "code"
    /\ InitTasks
    /\ InitConns
    /\ InitProcess
    /\ InitPeers

InitAgentLister ==
    /\ InitRegistry
    /\ kube_client = None
    /\ lister = "design"
    /\ InitTasks
    /\ InitConns
    /\ InitProcess
    /\ InitPeers

NextAgent ==
    \/ RegTick
    \/ RegWriteBegin
    \/ RegWriteEnd
    \/ DiscTick
    \/ ApiTick

SpecAgent == InitAgent /\ [][NextAgent]_vars

SpecAgentLister == InitAgentLister /\ [][NextAgent]_vars

(***************************************************************************)
(* MeshAgent::get_status, called on registries of up to three clusters.    *)
(***************************************************************************)
\* ClusterId's Display writes the String it wraps.
ClusterIdToString(id) == id

\* Result::unwrap_or_default on a listing.
UnwrapOrDefault(r) == IF r.ok THEN r.services ELSE << >>

\* A peer list that keeps every cluster of the registry.
PeerClustersUnfiltered(list, local) ==
    [i \in 1..Len(list) |-> ClusterIdToString(list[i].id)]

\* get_status: clusters.iter().filter(|c| c.id != cluster_id)
\*                  .map(|c| c.id.to_string()).collect()
PeerClusters(list, local) ==
    LET peers == SelectSeq(list, LAMBDA c : c.id # local) IN
    [i \in 1..Len(peers) |-> ClusterIdToString(peers[i].id)]

\* The ClusterStatusResponse of get_status on the map cl.
GetStatus(cl, k) ==
    [cluster_id |-> ClusterIdToString(LocalClusterId),
     node_id |-> LocalNodeId,
     node_addr |-> "pending",
     services |-> UnwrapOrDefault(DiscoverLocalServices(k)),
     peer_clusters |-> PeerClusters(ListClusters(cl), LocalClusterId)]

StatusOp == [kind |-> "get_status"]

\* get_status: list_clusters has its read guard; the response is built and
\* returned.
StatusEnd(t) ==
    /\ pc[t] = "reading"
    /\ op[t] = StatusOp
    /\ ret' = [ret EXCEPT ![t] = Some(GetStatus(clusters, kube_client))]
    /\ clusters' = ReadEffect(clusters, op[t])
    /\ lock' = [lock EXCEPT !.readers = @ \ {t}]
    /\ pc' = [pc EXCEPT ![t] = "idle"]
    /\ UNCHANGED << op, ncalls, passed, lastWrite, recency, agentVars, proxyVars >>

\* The identities of the registries get_status is called on: those of the
\* registry's callers and one more peer.
StatusIds == ClusterIds \cup {"c3"}

StatusInfos == ClusterInfos \cup { ClusterInfo("c3", "n3", None, << >>, ListAX) }

\* The registries register_cluster calls can build from these values: the
\* entries in any iteration order, one at most per identity.
StatusRegistries ==
    { cl \in UNION { [1..n -> { [key |-> i.id, value |-> i] : i \in StatusInfos }] :
                       n \in 0..Cardinality(StatusIds) } :
        \A i, j \in 1..Len(cl) : cl[i].key = cl[j].key => i = j }

InitStatus ==
    /\ clusters \in StatusRegistries
    /\ lock = Unlocked
    /\ pc = [t \in Tasks |-> "idle"]
    /\ op = [t \in Tasks |-> NoOp]
    /\ ret = [t \in Tasks |-> None]
    /\ ncalls = 0
    /\ passed = { clusters[i].value : i \in 1..Len(clusters) }
    /\ lastWrite = [id \in ClusterIds |-> GetClusterInfo(clusters, id)]
    /\ recency = [i \in 1..Len(clusters) |-> clusters[i].key]
    /\ kube_client \in { None, Some("client") }
    /\ lister = "code"
    /\ InitTasks
    /\ InitConns
    /\ InitProcess
    /\ InitPeers

NextStatus ==
    \/ \E t \in Readers, o \in ReadOps \cup {StatusOp} : CallRead(t, o)
    \/ \E t \in Readers : ReadBegin(t)
    \/ \E t \in Readers : op[t] # StatusOp /\ ReadEnd(t)
    \/ \E t \in Readers : StatusEnd(t)

SpecStatus == InitStatus /\ [][NextStatus]_vars

(***************************************************************************)
(* The proxy (proxy.rs).  A buffer is a sequence of characters.            *)
(***************************************************************************)
\* char::to_lowercase on the characters the buffers use.
LowerChar(ch) ==
    CASE ch = "H" -> "h"
      [] ch = "O" -> "o"
      [] ch = "S" -> "s"
      [] ch = "T" -> "t"
      [] ch = "G" -> "g"
      [] ch = "E" -> "e"
      [] ch = "X" -> "x"
      [] OTHER -> ch

\* str::to_lowercase
ToLowercase(line) == [i \in 1..Len(line) |-> LowerChar(line[i])]

\* str::starts_with
StartsWith(line, prefix) ==
    /\ Len(line) >= Len(prefix)
    /\ SubSeq(line, 1, Len(prefix)) = prefix

\* char::is_whitespace on the characters the buffers use.
IsWhitespace(ch) == ch \in {" ", "\t", "\r", "\n"}

\* str::trim: the leading and the trailing whitespace are dropped.
RECURSIVE TrimStart(_)
TrimStart(line) ==
    IF line # << >> /\ IsWhitespace(Head(line)) THEN TrimStart(Tail(line))
    ELSE line

RECURSIVE TrimEnd(_)
TrimEnd(line) ==
    IF line # << >> /\ IsWhitespace(line[Len(line)])
    THEN TrimEnd(SubSeq(line, 1, Len(line) - 1))
    ELSE line

Trim(line) == TrimEnd(TrimStart(line))

\* str::lines: the buffer is split at every "\n", a "\r" before it is
\* dropped with it, and a last line needs no terminator.  cur is the line
\* collected so far.
RECURSIVE LinesFrom(_, _)
LinesFrom(buf, cur) ==
    IF buf = << >>
    THEN IF cur = << >> THEN << >> ELSE << cur >>
    ELSE IF Head(buf) = "\n"
         THEN << IF cur # << >> /\ cur[Len(cur)] = "\r"
                 THEN SubSeq(cur, 1, Len(cur) - 1)
                 ELSE cur >> \o LinesFrom(Tail(buf), << >>)
         ELSE LinesFrom(Tail(buf), Append(cur, Head(buf)))

Lines(buf) == LinesFrom(buf, << >>)

\* line.splitn(2, ':').nth(1): what follows the first ':' of the line.
Splitn2Nth1(line) ==
    IF \E i \in 1..Len(line) : line[i] = ":"
    THEN LET first == CHOOSE i \in 1..Len(line) :
                         /\ line[i] = ":"
                         /\ \A k \in 1..(i - 1) : line[k] # ":"
         IN Some(SubSeq(line, first + 1, Len(line)))
    ELSE None

HostPrefix == << "h", "o", "s", "t", ":" >>

\* The loop of extract_host_header over the lines from index i: the first
\* line that starts with "host:" in lower case gives the host, trimmed;
\* without one the result is Err(Error::Proxy("No Host header found")).
RECURSIVE ExtractHostFrom(_, _)
ExtractHostFrom(lines, i) ==
    IF i > Len(lines) THEN [ok |-> FALSE, error |-> "Proxy: No Host header found"]
    ELSE IF /\ StartsWith(ToLowercase(lines[i]), HostPrefix)
            /\ IsSome(Splitn2Nth1(lines[i]))
         THEN [ok |-> TRUE, host |-> Trim(Unwrap(Splitn2Nth1(lines[i])))]
         ELSE ExtractHostFrom(lines, i + 1)

\* extract_host_header(request)
ExtractHostHeader(request) == ExtractHostFrom(Lines(request), 1)

\* The buffers a client's first bytes are drawn from.
CRLF == << "\r", "\n" >>
GetLine == << "G", "E", "T", " ", "/" >>
BufHost == GetLine \o CRLF \o << "H", "o", "s", "t", ":", " ", "a" >> \o CRLF \o CRLF
BufHostUpper == << "H", "O", "S", "T", ":", "b", "\n" >>
BufHostPort == GetLine \o << "\n", "h", "o", "s", "t", ":", " ", "a", ":", "8", " " >>
BufHostEmpty == << "H", "o", "s", "t", ":" >> \o CRLF
BufNoHost == GetLine \o CRLF \o CRLF
BufHostile == << "H", "o", "s", "t", "i", "l", "e", ":", " ", "a", "\n" >>
BufIndented == GetLine \o CRLF \o << " ", "H", "o", "s", "t", ":", " ", "a", "\n" >>
BufNewline == << "\n" >>

Buffers ==
    { BufHost, BufHostUpper, BufHostPort, BufHostEmpty, BufNoHost, BufHostile,
      BufIndented, BufNewline }

\* What stream.read(&mut buffer).await can return: an I/O error, 0 bytes
\* (the client has closed) or the client's first bytes.
ReadResults ==
    { [ok |-> FALSE, error |-> "Io"] }
    \cup { [ok |-> TRUE, bytes |-> b] : b \in Buffers \cup { << >> } }

\* The response handle_tcp_connection writes.
Response == "HTTP/1.1 200 OK\r\nContent-Length: 12\r\n\r\nHello, Mesh!"

\* What has reached the client when write_all fails: nothing, or a part.
PartialResponses == { "", "HTTP/1.1 200 OK\r\n" }

\* MESH_ALPN (lib.rs)
MeshAlpn == "iroh-mesh/v1"

ResultOk == [ok |-> TRUE]
ResultErr(e) == [ok |-> FALSE, error |-> e]

\* A handler for which a client that closed at once is an error as well.
AfterReadEofIsError(r) ==
    IF ~ r.ok THEN [state |-> "done", result |-> Some(ResultErr(r.error)), host |-> None]
    ELSE LET e == ExtractHostHeader(r.bytes) IN
         IF ~ e.ok
         THEN [state |-> "done", result |-> Some(ResultErr(e.error)), host |-> None]
         ELSE [state |-> "writing", result |-> None, host |-> Some(e.host)]

\* handle_tcp_connection from the read to the write: `?` returns the read's
\* error, n == 0 returns Ok(()), a request without a Host line returns
\* extract_host_header's error, and otherwise the response is written.
AfterRead(r) ==
    IF ~ r.ok THEN [state |-> "done", result |-> Some(ResultErr(r.error)), host |-> None]
    ELSE IF Len(r.bytes) = 0
    THEN [state |-> "done", result |-> Some(ResultOk), host |-> None]
    ELSE LET e == ExtractHostHeader(r.bytes) IN
         IF ~ e.ok
         THEN [state |-> "done", result |-> Some(ResultErr(e.error)), host |-> None]
         ELSE [state |-> "writing", result |-> None, host |-> Some(e.host)]

\* A stream that outlives the handler that owned it (kept in a table of
\* connections, say).
StreamLeaked(stream) == stream

\* A value that goes out of scope is dropped: a TcpStream closes its socket,
\* a stream or Connection of the endpoint is closed.
Drop(stream) == IF stream = "none" THEN "none" ELSE "closed"

\* An accept loop that awaits each handler before it accepts again.
CanAcceptInline(pt, cs) ==
    /\ pt["proxy"] = "accepting"
    /\ \A c \in Conns : cs[c] \notin {"reading", "writing"}

\* start_tcp_proxy is at listener.accept(): the handlers are spawned, so
\* the loop is back there whatever the handlers do.
CanAccept(pt, cs) == pt["proxy"] = "accepting"

\* A run that joins its futures: the one that ended is kept as ended and
\* the other goes on.
SelectKeepsOthers(pt, task) == [pt EXCEPT ![task] = "ended"]

\* tokio::select! in MeshProxy::run: the first future to complete gives
\* run's result and the other future is dropped.
Select(pt, task) ==
    [t \in ProxyTasks |-> IF t = task THEN "ended" ELSE "dropped"]

\* A main that logs the error and returns normally.
ExitStatusIgnoresErr(result) == 0

\* main: exit(1) when run returned Err, and Ok(()) otherwise.
ExitStatus(result) == IF result.ok THEN 0 ELSE 1

\* The future `task` of run completes with `result`.
TaskEnds(task, result) ==
    /\ ptask' = Select(ptask, task)
    /\ runret' = IF \A t \in ProxyTasks : ptask'[t] \in {"ended", "dropped"}
                 THEN Some(result) ELSE runret

\* start_tcp_proxy: TcpListener::bind returns; its error is returned by `?`.
Bind ==
    /\ exit = None
    /\ ptask["proxy"] = "start"
    /\ \/ ptask' = [ptask EXCEPT !["proxy"] = "accepting"] /\ UNCHANGED runret
       \/ TaskEnds("proxy", ResultErr("Io"))
    /\ UNCHANGED << registryVars, pc, op, ret, agentVars, connVars, exit,
                    signal, acceptErrs, peerVars >>

\* start_tcp_proxy: listener.accept() returns Err, which is logged, and the
\* loop goes on.
AcceptErr ==
    /\ exit = None
    /\ ptask["proxy"] = "accepting"
    /\ acceptErrs < MaxAcceptErrs
    /\ acceptErrs' = acceptErrs + 1
    /\ UNCHANGED << registryVars, pc, op, ret, agentVars, connVars, ptask,
                    runret, exit, signal, peerVars >>

\* start_tcp_proxy: listener.accept() returns the connection and its
\* handler is spawned; the handler waits in stream.read.
Accept(c) ==
    /\ exit = None
    /\ CanAccept(ptask, cstate)
    /\ cstate[c] = "pending"
    /\ cstate' = [cstate EXCEPT ![c] = "reading"]
    /\ UNCHANGED << registryVars, pc, op, ret, agentVars, creq, chost, cresult,
                    crecv, csock, dials, procVars, peerVars >>

\* handle_tcp_connection: stream.read returns.  A handler that returns
\* drops the stream, which closes the socket; its error is logged by the
\* spawned task.
HandleRead(c) ==
    /\ exit = None
    /\ cstate[c] = "reading"
    /\ \E r \in ReadResults :
         LET a == AfterRead(r) IN
         /\ creq' = [creq EXCEPT ![c] = Some(r)]
         /\ cstate' = [cstate EXCEPT ![c] = a.state]
         /\ cresult' = [cresult EXCEPT ![c] = a.result]
         /\ chost' = [chost EXCEPT ![c] = a.host]
         /\ csock' = [csock EXCEPT ![c] = IF a.state = "done" THEN Drop(@) ELSE @]
    /\ UNCHANGED << registryVars, pc, op, ret, agentVars, crecv, dials,
                    procVars, peerVars >>

\* handle_tcp_connection: write_all of the response returns, and so does
\* the handler.
HandleWrite(c) ==
    /\ exit = None
    /\ cstate[c] = "writing"
    /\ \/ /\ crecv' = [crecv EXCEPT ![c] = Response]
          /\ cresult' = [cresult EXCEPT ![c] = Some(ResultOk)]
       \/ /\ \E part \in PartialResponses : crecv' = [crecv EXCEPT ![c] = part]
          /\ cresult' = [cresult EXCEPT ![c] = Some(ResultErr("Io"))]
    /\ cstate' = [cstate EXCEPT ![c] = "done"]
    /\ csock' = [csock EXCEPT ![c] = Drop(@)]
    /\ UNCHANGED << registryVars, pc, op, ret, agentVars, creq, chost, dials,
                    procVars, peerVars >>

\* What the remote node of an inbound connection can do next.
PeerEvents == {"stream", "finish", "close", "error"}

\* MeshProtocolHandler::accept from one await to the next: accept_bi
\* returns the stream or the connection's error, io::copy returns at the end
\* of the peer's stream or with an error, send.finish(), and
\* connection.closed() returns once the connection is closed.  An event the
\* handler is not waiting for leaves it where it is.
HandlerAfter(state, ev) ==
    CASE state = "accept_bi" /\ ev = "stream" ->
            [state |-> "copying", result |-> None]
      [] state = "accept_bi" /\ ev \in {"close", "error"} ->
            [state |-> "done", result |-> Some(ResultErr("Accept"))]
      [] state = "copying" /\ ev = "finish" ->
            [state |-> "closed_wait", result |-> None]
      [] state = "copying" /\ ev \in {"close", "error"} ->
            [state |-> "done", result |-> Some(ResultErr("Accept"))]
      [] state = "closed_wait" /\ ev \in {"close", "error"} ->
            [state |-> "done", result |-> Some(ResultOk)]
      [] OTHER -> [state |-> state, result |-> None]

\* The handlers of inbound connections that are still running.
HandlerActive(p) == hstate[p] \in {"accept_bi", "copying", "closed_wait"}

\* start_protocol_handler: the router is spawned on the endpoint and the
\* task waits for Ctrl-C.
StartProtocol ==
    /\ exit = None
    /\ ptask["protocol"] = "start"
    /\ ptask' = [ptask EXCEPT !["protocol"] = "waiting"]
    /\ UNCHANGED << registryVars, pc, op, ret, agentVars, connVars, runret,
                    exit, signal, acceptErrs, peerVars >>

\* The operator's Ctrl-C reaches the process.
CtrlC ==
    /\ exit = None
    /\ ~ signal
    /\ signal' = TRUE
    /\ UNCHANGED << registryVars, pc, op, ret, agentVars, connVars, ptask,
                    runret, exit, acceptErrs, peerVars >>

\* start_protocol_handler: tokio::signal::ctrl_c().await returns, Ok once
\* the signal has come and Err when the signal handler cannot be set up.
ProtocolSignal ==
    /\ exit = None
    /\ ptask["protocol"] = "waiting"
    /\ \/ /\ signal
          /\ ptask' = [ptask EXCEPT !["protocol"] = "shutting"]
          /\ UNCHANGED runret
       \/ /\ ~ signal
          /\ TaskEnds("protocol", ResultErr("Network"))
    /\ UNCHANGED << registryVars, pc, op, ret, agentVars, connVars, exit,
                    signal, acceptErrs, peerVars >>

\* start_protocol_handler: router.shutdown().await stops the handlers of
\* the inbound connections and closes the endpoint; the task returns Ok(())
\* or the shutdown's error.
ProtocolShutdown ==
    /\ exit = None
    /\ ptask["protocol"] = "shutting"
    /\ \E result \in {ResultOk, ResultErr("Network")} :
         TaskEnds("protocol", result)
    /\ hstate' = [p \in Peers |-> IF HandlerActive(p) THEN "aborted" ELSE hstate[p]]
    /\ hstream' = [p \in Peers |-> Drop(hstream[p])]
    /\ hconn' = [p \in Peers |-> Drop(hconn[p])]
    /\ UNCHANGED << registryVars, pc, op, ret, agentVars, connVars, exit,
                    signal, acceptErrs, hres, hid >>

\* What remote_node_id() can return for an inbound connection: the node id
\* of the authenticated peer, or None for its error.
RemoteNodeIds == { None, Some("n2") }

\* A handler that goes on without the peer's identity
\* (connection.remote_node_id().ok()).
AfterRemoteNodeIdIgnored(id) == [state |-> "accept_bi", result |-> None]

\* MeshProtocolHandler::accept: connection.remote_node_id()? returns the
\* error, and with the identity the handler goes on to accept_bi.
AfterRemoteNodeId(id) ==
    IF IsSome(id)
    THEN [state |-> "accept_bi", result |-> None]
    ELSE [state |-> "done", result |-> Some(ResultErr("Accept"))]

\* The router accepts a connection with MESH_ALPN and spawns
\* MeshProtocolHandler::accept, which returns the error of
\* remote_node_id() or waits in accept_bi.
PeerConnect(p) ==
    /\ exit = None
    /\ ptask["protocol"] = "waiting"
    /\ hstate[p] = "none"
    /\ \E id \in RemoteNodeIds :
         LET a == AfterRemoteNodeId(id) IN
         /\ hid' = [hid EXCEPT ![p] = id]
         /\ hstate' = [hstate EXCEPT ![p] = a.state]
         /\ hres' = [hres EXCEPT ![p] = a.result]
         /\ hconn' = [hconn EXCEPT ![p] = IF a.state = "done" THEN Drop("open") ELSE "open"]
    /\ UNCHANGED << registryVars, pc, op, ret, agentVars, connVars, procVars,
                    hstream >>

\* MeshProtocolHandler::accept: the await it is at returns.  A handler that
\* returns drops the stream and the connection.
PeerEvent(p) ==
    /\ exit = None
    /\ HandlerActive(p)
    /\ \E ev \in PeerEvents :
         LET a == HandlerAfter(hstate[p], ev) IN
         /\ a.state # hstate[p]
         /\ hstate' = [hstate EXCEPT ![p] = a.state]
         /\ hres' = [hres EXCEPT ![p] = a.result]
         /\ hstream' = [hstream EXCEPT ![p] =
                           IF a.state = "done" THEN Drop(@)
                           ELSE IF a.state = "copying" THEN "open" ELSE @]
         /\ hconn' = [hconn EXCEPT ![p] = IF a.state = "done" THEN Drop(@) ELSE @]
    /\ UNCHANGED << registryVars, pc, op, ret, agentVars, connVars, procVars,
                    hid >>

\* main: run has returned; exit(1) on Err, return on Ok.  The runtime is
\* dropped with the process: the tasks still running are cancelled and
\* every socket and connection of the process is closed.
MainExit ==
    /\ exit = None
    /\ IsSome(runret)
    /\ exit' = Some(ExitStatus(Unwrap(runret)))
    /\ cstate' = [c \in Conns |->
                    IF cstate[c] \in {"reading", "writing"} THEN "cancelled"
                    ELSE cstate[c]]
    /\ csock' = [c \in Conns |-> Drop(csock[c])]
    /\ hstate' = [p \in Peers |-> IF HandlerActive(p) THEN "aborted" ELSE hstate[p]]
    /\ hstream' = [p \in Peers |-> Drop(hstream[p])]
    /\ hconn' = [p \in Peers |-> Drop(hconn[p])]
    /\ UNCHANGED << registryVars, pc, op, ret, agentVars, creq, chost, cresult,
                    crecv, dials, ptask, runret, signal, acceptErrs, hres, hid >>

\* MeshProxy::new: DiscoveryManager::new gives an empty registry.
InitProxy ==
    /\ InitRegistry
    /\ kube_client \in { None, Some("client") }
    /\ lister = "code"
    /\ InitTasks
    /\ InitConns
    /\ InitProcess
    /\ InitPeers

Entry(info) == [key |-> info.id, value |-> info]

\* The peer cluster and the local cluster a test registers.
PeerB == ClusterInfo("c2", "n2", None, << >>, ListAX)
LocalA == ClusterInfo(LocalClusterId, LocalNodeId, None, << >>, ListAYBX)

SeededRegistries ==
    { << >>, << Entry(PeerB) >>, << Entry(LocalA), Entry(PeerB) >>,
      << Entry(PeerB), Entry(LocalA) >> }

InitProxySeeded ==
    /\ clusters \in SeededRegistries
    /\ lock = Unlocked
    /\ pc = [t \in Tasks |-> "idle"]
    /\ op = [t \in Tasks |-> NoOp]
    /\ ret = [t \in Tasks |-> None]
    /\ ncalls = 0
    /\ passed = { clusters[i].value : i \in 1..Len(clusters) }
    /\ lastWrite = [id \in ClusterIds |-> GetClusterInfo(clusters, id)]
    /\ recency = [i \in 1..Len(clusters) |-> clusters[i].key]
    /\ kube_client = None
    /\ lister = "code"
    /\ InitTasks
    /\ InitConns
    /\ InitProcess
    /\ InitPeers

NextProxy ==
    \/ Bind
    \/ AcceptErr
    \/ \E c \in Conns : Accept(c)
    \/ \E c \in Conns : HandleRead(c)
    \/ \E c \in Conns : HandleWrite(c)
    \/ StartProtocol
    \/ CtrlC
    \/ ProtocolSignal
    \/ ProtocolShutdown
    \/ \E p \in Peers : PeerConnect(p)
    \/ \E p \in Peers : PeerEvent(p)
    \/ MainExit

SpecProxy == InitProxy /\ [][NextProxy]_vars

SpecProxySeeded == InitProxySeeded /\ [][NextProxy]_vars

\* The steps the proxy takes by itself are taken: the runtime polls a future
\* that can go on.  When a client or a peer sends, finishes or closes, when
\* accept fails and when the operator sends Ctrl-C is up to them.
FairProxy ==
    /\ WF_vars(Bind)
    /\ WF_vars(StartProtocol)
    /\ \A c \in Conns : WF_vars(Accept(c))
    /\ \A c \in Conns : WF_vars(HandleWrite(c))
    /\ WF_vars(signal /\ ProtocolSignal)
    /\ WF_vars(ProtocolShutdown)
    /\ WF_vars(MainExit)

SpecProxyFair == InitProxy /\ [][NextProxy]_vars /\ FairProxy

(***************************************************************************)
(* Properties of the registry, checked under Spec.                         *)
(***************************************************************************)
\* No insert or remove is in progress: every completed call has taken its
\* whole effect and a read can take the lock.
Quiescent == lock.writer = NoTask

\* The cluster advertises the pair: some service of its list has this name
\* and this namespace.
Advertises(info, name, namespace) ==
    \E j \in 1..Len(info.services) :
        /\ info.services[j].name = name
        /\ info.services[j].namespace = namespace

\* The ClusterInfo values in what a read returned (an Option or a Vec).
Returned(t) ==
    IF IsSome(ret[t])
    THEN { Unwrap(ret[t])[i] : i \in 1..Len(Unwrap(ret[t])) }
    ELSE {}

\* C1. Last write wins: once the last register_cluster/update_cluster call
\* for an identity has completed, get_cluster_info of that identity returns
\* exactly the ClusterInfo that call was given, whatever calls for other
\* identities completed before, between or after (and None when the last
\* completed call for the identity was a remove, or none was made).
C1_LastWriteWins ==
    Quiescent =>
        \A id \in ClusterIds : GetClusterInfo(clusters, id) = lastWrite[id]

\* Two different values were written for one identity by calls that have
\* all completed, and the other identity was registered after them.
C1_Witness ==
    /\ Quiescent
    /\ \A t \in Writers : pc[t] = "idle"
    /\ \E id \in ClusterIds, other \in ClusterIds :
         /\ recency = << id, other >>
         /\ Cardinality({ i \in passed : i.id = id }) = 2
         /\ IsSome(lastWrite[id])
         /\ GetClusterInfo(clusters, id) = lastWrite[id]

\* C2. Atomic replacement: every ClusterInfo a get_cluster_info,
\* list_clusters or find_service call returned, while writers were calling
\* register/update/remove concurrently, is equal in all fields to a value
\* that was passed whole to a register_cluster or update_cluster call.
C2_AtomicReplacement ==
    \A t \in Readers : Returned(t) \subseteq passed

\* A read has returned two whole values while an insert over one of them is
\* in progress: the map's memory holds a value that mixes two writes.
C2_Witness ==
    \E t \in Readers, w \in Writers :
        /\ pc[w] = "writing"
        /\ \E i \in 1..Len(clusters) : clusters[i].value \notin passed
        /\ pc[t] = "idle"
        /\ op[t].kind = "list_clusters"
        /\ Cardinality(Returned(t)) = 2

\* C3. find_service(name, namespace) returns None exactly when no cluster in
\* the registry lists a service with that name and that namespace, and
\* otherwise returns a ClusterInfo of the registry whose list has a service
\* with both (a match on the name alone or the namespace alone is not one).
C3_FindService ==
    Quiescent =>
        \A name \in Names, namespace \in Namespaces :
            LET r == FindService(clusters, name, namespace) IN
            /\ r = None <=>
                 ~ \E i \in 1..Len(clusters) :
                       Advertises(clusters[i].value, name, namespace)
            /\ IsSome(r) =>
                 /\ \E i \in 1..Len(clusters) : clusters[i].value = Unwrap(r)
                 /\ Advertises(Unwrap(r), name, namespace)

\* find_service("b", "y") returned None on a registry whose first cluster
\* advertises (a, y) and (b, x), and find_service("a", "x") finds the second.
C3_Witness ==
    \E t \in Readers :
        /\ pc[t] = "idle"
        /\ op[t] = [kind |-> "find_service", name |-> "b", namespace |-> "y"]
        /\ ret[t] = Some(None)
        /\ Quiescent
        /\ Len(clusters) = 2
        /\ clusters[1].value.services = ListAYBX
        /\ FindService(clusters, "a", "x") = Some(clusters[2].value)

\* The clusters of the registry that advertise the pair.
Advertisers(name, namespace) ==
    { i \in 1..Len(clusters) : Advertises(clusters[i].value, name, namespace) }

\* Position of an identity in the recency order (0 when it is not there).
RecencyOf(id) ==
    IF \E k \in 1..Len(recency) : recency[k] = id
    THEN CHOOSE k \in 1..Len(recency) : recency[k] = id
    ELSE 0

\* C4. Tie-break of find_service: when two or more registered clusters
\* advertise the same (name, namespace), find_service returns the one whose
\* entry was registered or updated most recently.
C4_TieBreakMostRecent ==
    Quiescent =>
        \A name \in Names, namespace \in Namespaces :
            Cardinality(Advertisers(name, namespace)) >= 2 =>
                \E i \in Advertisers(name, namespace) :
                    /\ FindService(clusters, name, namespace)
                         = Some(clusters[i].value)
                    /\ \A j \in Advertisers(name, namespace) :
                         RecencyOf(clusters[j].key) <= RecencyOf(clusters[i].key)

(***************************************************************************)
(* Properties of the agent's ticks.                                        *)
(***************************************************************************)
\* The registry's entry of the local cluster.
LocalEntry == GetClusterInfo(clusters, LocalClusterId)

\* This step is a registration tick whose listing failed.
FailedRegTick ==
    /\ ticks'["reg"] = ticks["reg"] + 1
    /\ ~ Unwrap(listed'["reg"]).ok

C6_TickRegistersListing ==
    (pc["reg"] = "idle" /\ IsSome(listed["reg"]) /\ Unwrap(listed["reg"]).ok)
        => /\ IsSome(LocalEntry)
           /\ Unwrap(LocalEntry).id = LocalClusterId
           /\ Unwrap(LocalEntry).services = Unwrap(listed["reg"]).services

\* Two registration ticks have listed the Kubernetes mock service and
\* registered it.
C6_Witness ==
    /\ pc["reg"] = "idle"
    /\ ticks["reg"] >= 2
    /\ IsSome(kube_client)
    /\ IsSome(LocalEntry)
    /\ Unwrap(LocalEntry).services[1].name = "kubernetes"

WriteReturns(t, kind) ==
    /\ pc[t] = "writing"
    /\ pc'[t] = "idle"
    /\ op[t].kind = kind

\* Task t has returned from a call of the given kind.
HasReturned(t, kind) ==
    /\ pc[t] = "idle"
    /\ op[t].kind = kind
    /\ ret[t] = Some("Ok")

\* C18 (Spec). remove_cluster(id) deletes exactly the entry of id: after its
\* return get_cluster_info(id) is None and neither list_clusters nor
\* find_service returns a cluster of that identity, every other entry is
\* what it was, the call returns Ok, and a remove of an identity that is
\* not registered leaves the registry as it was.
C18_RemoveExactlyOne ==
    [][\A t \in Writers :
         WriteReturns(t, "remove_cluster") =>
            LET id == op[t].id IN
            /\ ret'[t] = Some("Ok")
            /\ GetClusterInfo(clusters', id) = None
            /\ \A i \in 1..Len(ListClusters(clusters')) :
                   ListClusters(clusters')[i].id # id
            /\ \A name \in Names, ns \in Namespaces :
                   LET f == FindService(clusters', name, ns) IN
                   IsSome(f) => Unwrap(f).id # id
            /\ \A other \in ClusterIds \ {id} :
                   GetClusterInfo(clusters', other) = GetClusterInfo(clusters, other)
            /\ Len(clusters') = Len(clusters) - (IF id \in Keys(clusters) THEN 1 ELSE 0)
            /\ (id \notin Keys(clusters)) => clusters' = clusters]_vars

\* A remove_cluster of a registered identity has returned and the entry of
\* the other identity is still there.
C18_Witness ==
    \E t \in Writers :
        /\ HasReturned(t, "remove_cluster")
        /\ Quiescent
        /\ \E info \in passed : info.id = op[t].id
        /\ GetClusterInfo(clusters, op[t].id) = None
        /\ Len(clusters) = 1

\* C19 (Spec). The registry holds at most one ClusterInfo per identity and
\* each is stored under its own id, in every reachable state; registering an
\* identity already present replaces its entry, so that the number of
\* entries is the number of identities whose last completed call was not a
\* remove.
C19_OneEntryPerIdentity ==
    /\ \A i, j \in 1..Len(clusters) :
           clusters[i].key = clusters[j].key => i = j
    /\ \A i \in 1..Len(clusters) : clusters[i].value.id = clusters[i].key
    /\ Quiescent =>
           Len(clusters) = Cardinality({ id \in ClusterIds : IsSome(lastWrite[id]) })

\* Both writers have registered the same identity with different values and
\* the registry has the one entry.
C19_Witness ==
    /\ HasReturned("w1", "register_cluster")
    /\ HasReturned("w2", "register_cluster")
    /\ op["w1"].info.id = op["w2"].info.id
    /\ op["w1"].info # op["w2"].info
    /\ Quiescent
    /\ Len(clusters) = 1

\* C20 (Spec). register_cluster returns Ok on every call, and a call given
\* the ClusterInfo that the last completed call for the identity was given
\* leaves the registry as it was.
C20_RegisterIdempotent ==
    [][\A t \in Writers :
         WriteReturns(t, "register_cluster") =>
            /\ ret'[t] = Some("Ok")
            /\ lastWrite[op[t].info.id] = Some(op[t].info) => clusters' = clusters]_vars

\* The only two calls made were register_cluster with the same ClusterInfo,
\* and both have returned.
C20_Witness ==
    /\ HasReturned("w1", "register_cluster")
    /\ HasReturned("w2", "register_cluster")
    /\ op["w1"].info = op["w2"].info
    /\ ncalls = 2
    /\ Quiescent
    /\ clusters = << [key |-> op["w1"].info.id, value |-> op["w1"].info] >>

\* C16 (SpecAgent). When the cluster API cannot be reached (no Kubernetes
\* client could be built), a listing by either periodic task is an error
\* and never a list of services.
C16_UnreachableApiIsError ==
    \A t \in {"disc", "reg"} :
        (kube_client = None /\ IsSome(listed[t])) => ~ Unwrap(listed[t]).ok

\* C23 (SpecAgent). After a tick of the service-refresh task whose listing
\* succeeds, the entry of the local cluster in the registry holds the
\* services that tick listed.
C23_RefreshPublishes ==
    (pc["disc"] = "idle" /\ IsSome(listed["disc"]) /\ Unwrap(listed["disc"]).ok)
        => /\ IsSome(LocalEntry)
           /\ Unwrap(LocalEntry).services = Unwrap(listed["disc"]).services

\* C24 (SpecAgent). The agent's tasks write the local entry only: every
\* ClusterInfo a tick has passed to register_cluster carries the configured
\* local identity, and no other identity has an entry or has had a call.
C24_OnlyLocalEntryWritten ==
    /\ \A info \in passed : info.id = LocalClusterId
    /\ \A t \in AgentTasks :
           op[t] # NoOp => op[t].kind = "register_cluster" /\ op[t].info.id = LocalClusterId
    /\ Keys(clusters) \subseteq {LocalClusterId}
    /\ \A id \in ClusterIds \ {LocalClusterId} :
           GetClusterInfo(clusters, id) = None /\ lastWrite[id] = None

\* All three tasks have ticked, the registration more than once, and the
\* registry holds the local entry.
C24_Witness ==
    /\ ticks["reg"] > 1
    /\ ticks["disc"] > 0
    /\ ticks["api"] > 0
    /\ pc["reg"] = "idle"
    /\ Keys(clusters) = {LocalClusterId}

\* Reader t has returned from a call of the given kind.
ReadReturned(t, kind) ==
    /\ pc[t] = "idle"
    /\ op[t].kind = kind
    /\ IsSome(ret[t])

\* C21 (SpecStatus). Reads have no side effects: every step of a call of
\* get_cluster_info, list_clusters, find_service or get_status, on every
\* registry and with every argument, leaves the registry exactly as it was.
C21_ReadsLeaveRegistry ==
    [][\A t \in Readers : pc'[t] # pc[t] => clusters' = clusters]_vars

\* get_status has returned on a registry of three clusters.
C21_Witness ==
    /\ ReadReturned("r1", "get_status")
    /\ Len(clusters) = Cardinality(StatusIds)

\* C22 (SpecStatus). get_status returns the configured local identity, and
\* its peer list holds every identity of the registry other than the local
\* one, each once, and never the local one.
C22_StatusContent ==
    \A t \in Readers :
        ReadReturned(t, "get_status") =>
            LET st == Unwrap(ret[t])
                peers == { st.peer_clusters[i] : i \in 1..Len(st.peer_clusters) }
            IN  /\ st.cluster_id = LocalClusterId
                /\ peers = Keys(clusters) \ {LocalClusterId}
                /\ Len(st.peer_clusters) = Cardinality(peers)

\* get_status has returned two peers on a registry that holds the local
\* cluster between them.
C22_Witness ==
    /\ ReadReturned("r1", "get_status")
    /\ Len(clusters) = Cardinality(StatusIds)
    /\ clusters[2].key = LocalClusterId
    /\ Len(Unwrap(ret["r1"]).peer_clusters) = Len(clusters) - 1

(***************************************************************************)
(* Properties of the proxy, checked under SpecProxy and SpecProxySeeded.   *)
(***************************************************************************)

\* The service a Host value asks for: the host names used here are one
\* character long, and any other value names a service nobody advertises.
RequestedName(host) == IF Len(host) = 1 THEN host[1] ELSE "other"

\* No cluster of the registry advertises a service of this name.
Unadvertised(name) == \A ns \in Namespaces : Advertisers(name, ns) = {}

\* The service of this name is advertised by the peer cluster at position i
\* of the registry and by no other cluster.
OnlyInPeer(name, i) ==
    /\ clusters[i].key # LocalClusterId
    /\ \E ns \in Namespaces : Advertisers(name, ns) = {i}
    /\ \A ns \in Namespaces : Advertisers(name, ns) \subseteq {i}

\* The handling of the connection is over and its request named a host.
Routed(c) ==
    /\ cstate[c] = "done"
    /\ IsSome(chost[c])
    /\ Len(Unwrap(chost[c])) > 0

\* Some line of the bytes starts with "host:", whatever the case.
HasHostLine(bytes) ==
    \E i \in 1..Len(Lines(bytes)) : StartsWith(ToLowercase(Lines(bytes)[i]), HostPrefix)

ProxyErr == ResultErr("Proxy: No Host header found")

\* C8 (SpecProxy). A connection whose requested service no cluster of the
\* registry advertises fails and is closed: its handling does not end in
\* Ok, the client is not sent the success response, and no tunnel is dialed
\* for it.
C8_LookupFailureRejected ==
    \A c \in Conns :
        (Routed(c) /\ Unadvertised(RequestedName(Unwrap(chost[c]))))
            => /\ cresult[c] # Some(ResultOk)
               /\ crecv[c] # Response
               /\ csock[c] = "closed"
               /\ \A d \in dials : d.conn # c

PlaneState(cs, res, host, ds, c) ==
    CASE cs[c] = "pending" -> "None"
      [] cs[c] = "reading" -> "Accepted"
      [] cs[c] = "writing" ->
            IF \E d \in ds : d.conn = c THEN "TunnelEstablished"
            ELSE "RoutingResolved"
      [] cs[c] = "done" /\ res[c] = Some(ResultOk) /\ IsSome(host[c]) -> "Closed"
      [] OTHER -> "Failed"

\* The transitions of the data plane's machine.
PlaneTransitions ==
    { << "None", "Accepted" >>, << "Accepted", "RoutingResolved" >>,
      << "RoutingResolved", "TunnelEstablished" >>,
      << "TunnelEstablished", "Relaying" >>, << "Relaying", "Closed" >> }
    \cup { << from, "Failed" >> :
             from \in {"None", "Accepted", "RoutingResolved", "TunnelEstablished",
                       "Relaying"} }

\* C11 (SpecProxy). Every local connection goes through Accepted,
\* RoutingResolved, TunnelEstablished, Relaying and Closed in this order,
\* skipping none and returning to none, or goes from a state before Closed
\* to Failed; Closed and Failed are never left.
C11_PlaneStateMachine ==
    [][\A c \in Conns :
         LET from == PlaneState(cstate, cresult, chost, dials, c)
             to == PlaneState(cstate', cresult', chost', dials', c)
         IN  from # to => << from, to >> \in PlaneTransitions]_vars

\* C12 (SpecProxy). Faults of one connection stay with it: while the accept
\* loop runs, every connection not yet accepted can be accepted, whatever
\* the handlers of the others do (fail, or wait for a client that sends
\* nothing); the accept loop ends only when bind failed or when run
\* returned because the protocol task ended; and what the handler of a
\* connection returned follows from that connection's own read and write.
C12_FailureIsolation ==
    /\ \A c \in Conns :
           (exit = None /\ ptask["proxy"] = "accepting" /\ cstate[c] = "pending")
               => ENABLED Accept(c)
    /\ ptask["proxy"] = "ended" => \A c \in Conns : cstate[c] = "pending"
    /\ ptask["proxy"] = "dropped" => ptask["protocol"] = "ended"
    /\ \A c \in Conns :
           cstate[c] = "done" =>
               LET a == AfterRead(Unwrap(creq[c])) IN
               /\ a.state = "done" => cresult[c] = a.result
               /\ a.state = "writing" =>
                      /\ cresult[c] \in {Some(ResultOk), Some(ResultErr("Io"))}
                      /\ (cresult[c] = Some(ResultOk)) <=> (crecv[c] = Response)

\* An accept has failed and the handler of one connection waits for a
\* client that has sent nothing, and the other connection can be accepted.
C12_Witness ==
    /\ acceptErrs >= 1
    /\ cstate["k1"] = "reading"
    /\ cstate["k2"] = "pending"
    /\ ENABLED Accept("k2")

\* C13 (SpecProxy). No handler ends with something left open: when the
\* handling of a local connection is over, by return, error or
\* cancellation, its socket is closed and no tunnel of it is open, and when
\* the handler of an inbound mesh connection is over its stream and the
\* connection are closed.
C13_NoStreamLeak ==
    /\ \A c \in Conns :
           cstate[c] \in {"done", "cancelled"} =>
               /\ csock[c] = "closed"
               /\ \A d \in dials : d.conn # c
    /\ \A p \in Peers :
           hstate[p] \in {"done", "aborted"} =>
               hstream[p] # "open" /\ hconn[p] # "open"

\* One local connection was rejected for its missing Host line, the other
\* was answered, and the inbound connection failed while its stream was
\* copied.
C13_Witness ==
    /\ cstate["k1"] = "done" /\ cresult["k1"] = Some(ProxyErr)
    /\ cstate["k2"] = "done" /\ cresult["k2"] = Some(ResultOk) /\ crecv["k2"] = Response
    /\ hstate["p1"] = "done" /\ hres["p1"] = Some(ResultErr("Accept"))
    /\ hstream["p1"] = "closed" /\ hconn["p1"] = "closed"

\* C17 (SpecProxy). The end of a future of run ends the process: once a
\* future has ended, run has returned its result and the other future no
\* longer runs, and the process exits with a status other than 0 when that
\* result is an error.
C17_TaskEndIsFatal ==
    /\ \A t \in ProxyTasks :
           ptask[t] = "ended" =>
               /\ IsSome(runret)
               /\ \A u \in ProxyTasks \ {t} : ptask[u] = "dropped"
    /\ ptask["proxy"] = "ended" => runret = Some(ResultErr("Io"))
    /\ IsSome(runret) => \E t \in ProxyTasks : ptask[t] = "ended"
    /\ exit # None =>
           /\ IsSome(runret)
           /\ Unwrap(runret).ok => exit = Some(0)
           /\ ~ Unwrap(runret).ok => exit # Some(0)

\* Bind failed while the protocol task was waiting for Ctrl-C, and the
\* process has exited with status 1.
C17_Witness ==
    /\ ptask["proxy"] = "ended"
    /\ ptask["protocol"] = "dropped"
    /\ runret = Some(ResultErr("Io"))
    /\ exit = Some(1)

\* C25 (SpecProxy). The handler of an inbound mesh connection has the
\* authenticated identity of the remote peer before it accepts a stream or
\* relays a byte; without the identity it returns an error, and no stream
\* is accepted and nothing relayed on that connection.
C25_IdentityBeforeStream ==
    \A p \in Peers :
        /\ (HandlerActive(p) \/ hstream[p] # "none") => IsSome(hid[p])
        /\ (hstate[p] # "none" /\ hid[p] = None) =>
               /\ hstate[p] = "done"
               /\ IsSome(hres[p]) /\ ~ Unwrap(hres[p]).ok
               /\ hstream[p] = "none"
               /\ hconn[p] = "closed"

\* An inbound connection whose peer identity could not be obtained has
\* been refused.
C25_Witness ==
    /\ hstate["p1"] = "done"
    /\ hid["p1"] = None
    /\ hres["p1"] = Some(ResultErr("Accept"))
    /\ hstream["p1"] = "none"

\* C26 (SpecProxy). The proxy process never writes its registry: neither
\* construction, nor the handling of a local connection, nor an inbound
\* peer connection calls register, update or remove on it, so it is empty
\* in every state and find_service on it returns None for every name and
\* namespace.
C26_ProxyRegistryEmpty ==
    /\ clusters = << >>
    /\ lock = Unlocked
    /\ passed = {} /\ ncalls = 0
    /\ \A t \in Tasks : op[t] = NoOp /\ pc[t] = "idle"
    /\ \A id \in ClusterIds : lastWrite[id] = None
    /\ ListClusters(clusters) = << >>
    /\ \A name \in Names, ns \in Namespaces : FindService(clusters, name, ns) = None

\* A local connection has been answered and an inbound peer connection is
\* being relayed, and the registry is still empty.
C26_Witness ==
    /\ \E c \in Conns : cstate[c] = "done" /\ cresult[c] = Some(ResultOk)
    /\ hstate["p1"] = "copying"
    /\ clusters = << >>

\* The handler of the local connection is waiting in an await.
Handling(c) == cstate[c] \in {"reading", "writing"}

\* C14 (SpecProxyFair). No handler blocks forever: the handler of every
\* local connection and the handler of every inbound mesh connection ends,
\* also when the other side neither sends nor closes.
C14_NoTaskBlocksForever ==
    /\ \A c \in Conns : Handling(c) ~> ~ Handling(c)
    /\ \A p \in Peers : HandlerActive(p) ~> ~ HandlerActive(p)

\* The process has exited, no future of run and no handler is left running,
\* and every socket, stream and connection is closed.
AllClosed ==
    /\ exit # None
    /\ \A t \in ProxyTasks : ptask[t] \in {"ended", "dropped"}
    /\ \A c \in Conns : ~ Handling(c) /\ csock[c] = "closed"
    /\ \A p \in Peers : ~ HandlerActive(p) /\ hstream[p] # "open" /\ hconn[p] # "open"

\* C15 (SpecProxyFair). After Ctrl-C the listeners stop accepting and every
\* connection in progress is closed: no handler and no listener stays
\* blocked.
C15_ShutdownClosesAll == signal ~> AllClosed

\* Ctrl-C came while both local connections and the inbound connection were
\* being handled; the process has exited with status 0 and all are closed.
C15_Witness ==
    /\ signal
    /\ exit = Some(0)
    /\ \A c \in Conns : cstate[c] = "cancelled"
    /\ \A p \in Peers : hstate[p] = "aborted"
    /\ AllClosed

\* The first read of the connection returned these bytes and its handling
\* is over.
FirstRead(c, bytes) ==
    /\ cstate[c] = "done"
    /\ creq[c] = Some([ok |-> TRUE, bytes |-> bytes])

\* C10 as stated (SpecProxy). Every connection whose first read holds no
\* Host line, the read of a client that closed without a byte included,
\* ends with the proxy error and without the success response.
C10_NoMetadataRejected ==
    \A c \in Conns : \A b \in Buffers \cup { << >> } :
        (FirstRead(c, b) /\ ~ HasHostLine(b))
            => cresult[c] = Some(ProxyErr) /\ crecv[c] # Response

\* C10 (SpecProxy). A connection whose first read returns at least one byte
\* and no line starting with "host:" (in any case) ends with
\* Error::Proxy("No Host header found"); one whose first read returns no
\* byte ends with Ok(()); one whose first read fails ends with the I/O
\* error.  In all three the client receives nothing, the socket is closed
\* and no tunnel is dialed.
C10_NoHostLineRejected ==
    \A c \in Conns :
        /\ \A b \in Buffers :
               (FirstRead(c, b) /\ ~ HasHostLine(b))
                   => cresult[c] = Some(ProxyErr) /\ crecv[c] = ""
                        /\ csock[c] = "closed"
        /\ FirstRead(c, << >>)
               => cresult[c] = Some(ResultOk) /\ crecv[c] = ""
                    /\ csock[c] = "closed"
        /\ (cstate[c] = "done" /\ creq[c] = Some([ok |-> FALSE, error |-> "Io"]))
               => cresult[c] = Some(ResultErr("Io")) /\ crecv[c] = ""
                    /\ csock[c] = "closed"
        /\ \A d \in dials : d.conn # c

\* One connection sent a header that only resembles Host and was rejected,
\* and the other was closed by its client before any byte.
C10_Witness ==
    /\ FirstRead("k1", BufHostile)
    /\ cresult["k1"] = Some(ProxyErr)
    /\ FirstRead("k2", << >>)
    /\ cresult["k2"] = Some(ResultOk)

====
